---- MODULE Spec2Model ----
(***************************************************************************)
(* Model of visa_tracker.py: the polling worker                            *)
(* (AppointmentCheckerThread), the controller (VisaTracker) that starts    *)
(* and stops it and handles its signals on the GUI thread, the shared      *)
(* scan history and the messaging sink.                                    *)
(*                                                                         *)
(* The worker is modelled at the granularity at which the controller can   *)
(* interleave with it: the loop test, the fetch, one step per record of    *)
(* the listing (and one more where the worker's lock is taken for it), the *)
(* save-and-emit step, and the steps of the 1-second sleep loop.  Signals  *)
(* cross threads through Qt's queued connections, modelled by the sequence *)
(* `events` that the controller's event loop drains one handler at a time; *)
(* a handler that sends a message stays in requests.post until it returns. *)
(***************************************************************************)
EXTENDS Integers, Sequences, FiniteSets, TLC

\* ---------------------------------------------------------------- bounds
\* Worker objects the controller may construct in one run of the model.
MaxWorkers == 2
\* Cycles (readings of the clock by check_appointments) in one run.
MaxCycles == 2
\* Longest listing the upstream returns.
MaxLen == 2
\* Largest check_interval (seconds) the settings may hold.
MaxInterval == 2

\* ------------------------------------------------------------ data domain
\* people_looking: a count, JSON null, or the key absent from the record.
Null == 0 - 1
Absent == 0 - 2

\* A calendar date "YYYY-MM-DD" is <<y, m, d>>; with a time-of-day suffix
\* ("...T00:00:00Z") it is <<y, m, d, h>>; the empty tuple is a missing or
\* empty appointment_date.
Day1 == <<2024, 5, 1>>
Day1T == <<2024, 5, 1, 0>>
Day2 == <<2024, 5, 2>>
NoDate == <<>>

\* last_checked: an ISO-8601 timestamp (its instant, a positive number), a
\* string that fromisoformat rejects, or the key absent from the record.
Stamp1 == 1
BadStamp == 0 - 1
NoStamp == 0

Rec(src, mis, date, people) ==
    [kind |-> "dict", source_country |-> src, mission_country |-> mis,
     appointment_date |-> date, people_looking |-> people,
     last_checked |-> Stamp1]

\* An element of the listing that is not a mapping (a string, a number, null).
NotADict ==
    [kind |-> "other", source_country |-> "", mission_country |-> "",
     appointment_date |-> NoDate, people_looking |-> Absent,
     last_checked |-> NoStamp]

\* Records matching the selection (TR -> DE).  Two of them are of the same
\* day, so of the same AppointmentKey.
MatchingRecords ==
    { Rec("TR", "DE", Day1, 1), Rec("TR", "DE", Day1T, 2), Rec("TR", "DE", Day2, 1) }

\* A matching record whose people_looking is JSON null.
NullRecord == Rec("TR", "DE", Day1, Null)

\* Records of another country pair, one differing in each component.
OtherRecords ==
    { Rec("TR", "FR", Day1, 1), Rec("FR", "DE", Day1, 2) }

\* Records lacking a required field, and a non-mapping element.
MalformedRecords ==
    { Rec("", "DE", Day1, 1), Rec("TR", "", Day1, 2), Rec("TR", "DE", NoDate, 1), NotADict }

Records ==
    MatchingRecords \cup {NullRecord} \cup OtherRecords \cup MalformedRecords

\* A matching record whose appointment_date strptime rejects (month 13), and
\* one whose last_checked fromisoformat rejects.
BadDateRecord == Rec("TR", "DE", <<2024, 13, 1>>, 1)
BadStampRecord == [Rec("TR", "DE", Day2, 2) EXCEPT !.last_checked = BadStamp]

\* The records of the specification of the faults: two sound ones of two
\* days, and one for each per-record fault.
FaultRecords ==
    { Rec("TR", "DE", Day1, 1), Rec("TR", "DE", Day2, 1),
      NullRecord, BadDateRecord, BadStampRecord }

SeqsUpTo(S, n) == UNION { [1..k -> S] : k \in 0..n }

\* The listings the upstream may return: all listings over Records, and the
\* listings over the matching records alone, and the three listings of the
\* specification of the threads: an empty one, one with
\* a match, and one on which the cycle raises (the second record's
\* people_looking is compared with the null the first has just stored).
FullFeed == SeqsUpTo(Records, MaxLen)
MatchingFeed == SeqsUpTo(MatchingRecords, MaxLen)
ShortFeed == { <<>>, <<Rec("TR", "DE", Day1, 1)>>,
               <<NullRecord, Rec("TR", "DE", Day1, 1)>> }
FaultFeed == SeqsUpTo(FaultRecords, MaxLen)

\* The outcomes of a write of the history file and of a post to the
\* messaging sink (TRUE: it succeeds): with and without the failure.
MayFail == BOOLEAN
Succeeds == { TRUE }

\* Bodies that are JSON but no list: an object (of one key) and null.
NonListBodies == { "object", "null" }

\* ------------------------------------------------------------- variables
VARIABLES
    settings,        \* VisaTracker.settings, shared with the worker
    form,            \* the values the widgets of the settings form show
    scan_history,    \* VisaTracker.scan_history, shared with the worker
    history_file,    \* the document last written to scan_history.json
    checker_thread,  \* VisaTracker.checker_thread: a worker id, 0 is None
    ctl,             \* the controller thread: "idle" in the event loop,
                     \* "sending" in a handler's requests.post, or inside stop()
    pc,              \* each worker's position in run()
    is_running,      \* AppointmentCheckerThread.is_running
    stop_event,      \* AppointmentCheckerThread._stop_event
    loc,             \* each worker's locals in check_appointments / run
    lock,            \* AppointmentCheckerThread._lock: whether it is held
    clock,           \* datetime.now(): the number of readings so far
    events,          \* signals emitted and not yet delivered to their slot
    outbox,          \* the handler that ran last: its signal, the number of
                     \* appointments it carried, the sendMessage calls made,
                     \* and whether the last of them failed
    stopped,         \* workers on which stop() has returned
    last_cycle       \* whether the last cycle succeeded, the listing it
                     \* fetched (kept by SpecRepeat alone, empty otherwise),
                     \* whether the last write of the file succeeded, and
                     \* the current_time of the last cycle that succeeded

vars == <<settings, form, scan_history, history_file, checker_thread, ctl, pc, is_running,
          stop_event, loc, lock, clock, events, outbox, stopped,
          last_cycle>>

Workers == 1..MaxWorkers

\* An operator named X_Variant, defined just before X, is X with one plausible slip;
\* the properties are required to tell the two apart.

\* ------------------------------------------- check_appointments, the listing
\* Lines 75-82: the instants of the last_checked values that parse.  A value
\* that does not parse is passed over (the handler of line 80).
ParsedStamps(data) ==
    { data[j].last_checked :
        j \in { i \in 1..Len(data) : /\ data[i].kind = "dict"
                                    /\ data[i].last_checked # NoStamp
                                    /\ data[i].last_checked # BadStamp } }

\* Lines 69-87: the latest of them, shown at the offset of UTC+3 hours; None
\* (NoStamp) when there is none.
ApiLastChecked(data) ==
    IF ParsedStamps(data) = {} THEN [instant |-> NoStamp, utc_offset |-> 0]
    ELSE [instant |-> CHOOSE t \in ParsedStamps(data) :
                          \A u \in ParsedStamps(data) : u <= t,
          utc_offset |-> 3]

\* ---------------------------------------------- check_appointments, per record
\* HasRequiredFields without the test of mission_country.
HasRequiredFields_NoMission(appointment) ==
    /\ appointment.kind = "dict"
    /\ appointment.source_country # ""
    /\ appointment.appointment_date # NoDate

\* Lines 98-102: the element is a non-empty mapping and the three required
\* fields are present and truthy.
HasRequiredFields(appointment) ==
    /\ appointment.kind = "dict"
    /\ appointment.source_country # ""
    /\ appointment.mission_country # ""
    /\ appointment.appointment_date # NoDate

\* MatchesSelection comparing the source country alone.
MatchesSelection_SourceOnly(appointment, sett) ==
    appointment.source_country = sett.source_country

\* Line 104: the record is of the selected country pair.
MatchesSelection(appointment, sett) ==
    /\ appointment.source_country = sett.source_country
    /\ appointment.mission_country = sett.mission_country

\* Line 106: appointment_date.split('T')[0] parsed with '%Y-%m-%d'; the time
\* of day is dropped.  DateParses is strptime accepting the date part.
DatePart(date) == SubSeq(date, 1, 3)

DateParses(date) ==
    /\ Len(date) >= 3
    /\ date[2] \in 1..12
    /\ date[3] \in 1..31

\* Line 107: strftime('%d.%m.%Y').
FormatDate(d) == <<d[3], d[2], d[1]>>

\* Line 118: f"{source_country}_{mission_country}_{YYYY-MM-DD}".
AppointmentKey(appointment) ==
    <<appointment.source_country, appointment.mission_country,
      DatePart(appointment.appointment_date)>>

\* Lines 109-116: the normalized snapshot (people_looking defaults to 0).  The
\* pass-through text fields (center, categories, link) are not modelled.
AppointmentInfo(appointment) ==
    [date |-> FormatDate(DatePart(appointment.appointment_date)),
     people_looking |-> IF appointment.people_looking = Absent
                        THEN 0 ELSE appointment.people_looking]

\* Lines 121-123: the key is in the history with another people_looking.
Differs(appointments, key, info) ==
    /\ key \in DOMAIN appointments
    /\ appointments[key].people_looking # info.people_looking

\* Line 124: the subtraction raises TypeError when an operand is None.
DeltaRaises(appointments, key, info) ==
    /\ Differs(appointments, key, info)
    /\ (info.people_looking = Null \/ appointments[key].people_looking = Null)

\* Lines 121-124: the snapshot, annotated with the change when it differs.
WithChange(appointments, key, info) ==
    IF Differs(appointments, key, info)
    THEN [date |-> info.date, people_looking |-> info.people_looking,
          people_looking_change |->
              info.people_looking - appointments[key].people_looking]
    ELSE info

\* Upsert rebuilding the mapping from the one snapshot.
Upsert_Replace(appointments, key, info) ==
    [k \in {key} |-> info]

\* Line 126: scan_history['appointments'][key] = appointment_info.
Upsert(appointments, key, info) ==
    [k \in DOMAIN appointments \cup {key} |->
        IF k = key THEN info ELSE appointments[k]]

\* The outcome of one iteration of the loop of lines 97-132 on `appointment`:
\* "skip" (continue), "append" (upsert and append) or "raise" (an exception
\* that the handler of line 130 does not catch).
RecordOutcome(appointment, sett, appointments) ==
    IF ~HasRequiredFields(appointment) THEN "skip"
    ELSE IF ~MatchesSelection(appointment, sett) THEN "skip"
    ELSE IF ~DateParses(appointment.appointment_date) THEN "skip"
    ELSE IF DeltaRaises(appointments, AppointmentKey(appointment),
                        AppointmentInfo(appointment)) THEN "raise"
    ELSE "append"

\* ------------------------------------------------------------------ state
\* A worker's locals.  `before`, `after_ok` and `repeat` record what the
\* cycle started from: the history's appointments, whether the cycle before
\* it succeeded, and whether that cycle had fetched the same listing.
NoLocals ==
    [data |-> <<>>, i |-> 0, appointments |-> <<>>, current_time |-> 0,
     last_check |-> 0, api_last_checked |-> ApiLastChecked(<<>>),
     is_list |-> TRUE, left |-> 0, before |-> <<>>, after_ok |-> FALSE,
     repeat |-> FALSE]

\* VisaTracker.__init__ (lines 149-156): settings and history are loaded, no
\* worker exists.  last_scan 0 is the value of a history that was never
\* written (None); load_scan_history writes the file it does not find, so
\* the file holds what the memory holds.  initUI (lines 289-341, 391) sets
\* the widgets of the form to the settings.
InitWith(selections) ==
    /\ settings \in [source_country : selections.source_country,
                     mission_country : selections.mission_country,
                     check_interval : selections.check_interval,
                     send_all_updates : selections.send_all_updates]
    /\ form = settings
    /\ scan_history = [last_scan |-> 0, appointments |-> <<>>]
    /\ history_file = scan_history
    /\ checker_thread = 0
    /\ ctl = "idle"
    /\ pc = [w \in Workers |-> "new"]
    /\ is_running = [w \in Workers |-> FALSE]
    /\ stop_event = [w \in Workers |-> FALSE]
    /\ loc = [w \in Workers |-> NoLocals]
    /\ lock = [w \in Workers |-> FALSE]
    /\ clock = 0
    /\ events = <<>>
    /\ outbox = [sig |-> "none", matched |-> 0, sent |-> <<>>,
                 failed |-> FALSE]
    /\ stopped = {}
    /\ last_cycle = [ok |-> FALSE, data |-> <<>>, saved |-> TRUE,
                     time |-> 0]

\* QThread.isRunning(): true from start() until run() has returned.
IsRunning(w) == pc[w] \notin {"new", "done"}

\* ----------------------------------------------------- the worker: run()
\* Line 43: the test of the while loop.  A cycle begins when it passes.
LoopContinues(w) == is_running[w] /\ ~stop_event[w]

\* `wraps` says what becomes of the clock after MaxCycles readings: the run
\* of the model ends there, or the readings start again from 1 (in the
\* specification of liveness, which compares no two times).
LoopTest(w, wraps) ==
    /\ pc[w] = "loop"
    /\ IF LoopContinues(w)
       THEN /\ wraps \/ clock < MaxCycles
            /\ clock' = IF clock < MaxCycles THEN clock + 1 ELSE 1
            /\ pc' = [pc EXCEPT ![w] = "fetch"]
       ELSE /\ pc' = [pc EXCEPT ![w] = "done"]
            /\ clock' = clock
    /\ UNCHANGED <<form, lock, settings, scan_history, history_file, checker_thread, ctl, is_running,
                   stop_event, loc, events, outbox, stopped, last_cycle>>

\* EmitError with the exception ending run(): the worker terminates.
EmitError_Terminates(w, msg) ==
    /\ events' = Append(events, [sig |-> "error", from |-> w, error |-> msg])
    /\ loc' = [loc EXCEPT ![w] = NoLocals]
    /\ pc' = [pc EXCEPT ![w] = "done"]

\* EmitError without the emit of line 146: the exception is only logged.
EmitError_Silent(w, msg) ==
    /\ events' = events
    /\ loc' = [loc EXCEPT ![w] = [NoLocals EXCEPT
                                    !.left = settings.check_interval]]
    /\ pc' = [pc EXCEPT ![w] = "sleep"]

\* Lines 144-146 followed by the return to run(), line 47: the cycle's
\* exception is reported by error_signal, which carries its text, and the
\* sleep loop is entered.
EmitError(w, msg) ==
    /\ events' = Append(events, [sig |-> "error", from |-> w, error |-> msg])
    /\ loc' = [loc EXCEPT ![w] = [NoLocals EXCEPT
                                    !.left = settings.check_interval]]
    /\ pc' = [pc EXCEPT ![w] = "sleep"]

\* PreviousScan taking every cycle for the first.
PreviousScan_Never(hist) == 0

\* Lines 65-66: the last_scan the history holds when the cycle begins.
PreviousScan(hist) == hist.last_scan

\* Lines 59-66 and 89-95: the listing is fetched and decoded, the clock is
\* read, the previous last_scan is read under the lock, the result is
\* initialised.  `keep` says whether last_cycle keeps the listing.
FetchOk(w, feed, keep) ==
    /\ pc[w] = "fetch"
    /\ \E data \in feed :
          /\ loc' = [loc EXCEPT ![w] =
                      [data |-> data, i |-> 1, appointments |-> <<>>,
                       current_time |-> clock,
                       last_check |-> PreviousScan(scan_history),
                       api_last_checked |-> ApiLastChecked(data),
                       is_list |-> TRUE,
                       left |-> 0,
                       before |-> scan_history.appointments,
                       after_ok |-> last_cycle.ok,
                       repeat |-> /\ keep
                                  /\ last_cycle.ok
                                  /\ last_cycle.data = data]]
          /\ last_cycle' = [last_cycle EXCEPT
                               !.ok = FALSE,
                               !.data = IF keep THEN data ELSE <<>>]
    /\ pc' = [pc EXCEPT ![w] = "records"]
    /\ UNCHANGED <<form, lock, settings, scan_history, history_file, checker_thread, ctl, is_running,
                   stop_event, clock, events, outbox, stopped>>

\* Lines 59-97 on a body that is JSON but no list.  The test of line 73 is
\* false, so no last_checked is looked at.  On null the loop of line 97
\* raises TypeError.  On an object the loop runs over its keys, which are
\* strings, and the cycle goes on as on a listing of non-mappings.
FetchNotList(w) ==
    /\ pc[w] = "fetch"
    /\ \E body \in NonListBodies :
          IF body = "null"
          THEN /\ EmitError(w, "not iterable")
               /\ last_cycle' = [last_cycle EXCEPT !.ok = FALSE, !.data = <<>>]
          ELSE /\ loc' = [loc EXCEPT ![w] =
                           [NoLocals EXCEPT
                               !.data = <<NotADict>>,
                               !.i = 1,
                               !.current_time = clock,
                               !.last_check = PreviousScan(scan_history),
                               !.is_list = FALSE,
                               !.before = scan_history.appointments,
                               !.after_ok = last_cycle.ok]]
               /\ last_cycle' = [last_cycle EXCEPT !.ok = FALSE, !.data = <<>>]
               /\ pc' = [pc EXCEPT ![w] = "records"]
               /\ UNCHANGED events
    /\ UNCHANGED <<form, lock, settings, scan_history, history_file, checker_thread, ctl, is_running,
                   stop_event, clock, outbox, stopped>>

\* Lines 60-61 raising (network failure, timeout, a body that is not JSON).
FetchFails(w) ==
    /\ pc[w] = "fetch"
    /\ EmitError(w, "request failed")
    /\ last_cycle' = [last_cycle EXCEPT !.ok = FALSE, !.data = <<>>]
    /\ UNCHANGED <<form, lock, settings, scan_history, history_file, checker_thread, ctl, is_running,
                   stop_event, clock, outbox, stopped>>

\* Lines 97-132: one iteration of the loop over the listing, in one step for
\* a record that is passed over, and in two for a record that reaches line
\* 120: the worker's lock is acquired, and then lines 121-128 run and the
\* lock is released, by the end of the with block or by the exception.
ProcessRecord(w) ==
    /\ pc[w] = "records"
    /\ loc[w].i <= Len(loc[w].data)
    /\ LET appointment == loc[w].data[loc[w].i]
           key == AppointmentKey(appointment)
           outcome == RecordOutcome(appointment, settings,
                                    scan_history.appointments)
           info == WithChange(scan_history.appointments, key,
                              AppointmentInfo(appointment))
       IN  CASE outcome = "skip" ->
                  /\ loc' = [loc EXCEPT ![w].i = @ + 1]
                  /\ UNCHANGED <<scan_history, pc, events, last_cycle, lock>>
             [] outcome # "skip" /\ ~lock[w] ->
                  /\ lock' = [lock EXCEPT ![w] = TRUE]
                  /\ UNCHANGED <<scan_history, pc, events, last_cycle, loc>>
             [] outcome = "append" /\ lock[w] ->
                  /\ scan_history' =
                        [scan_history EXCEPT !.appointments =
                            Upsert(@, key, info)]
                  /\ loc' = [loc EXCEPT ![w].i = @ + 1,
                                        ![w].appointments = Append(@, info)]
                  /\ lock' = [lock EXCEPT ![w] = FALSE]
                  /\ UNCHANGED <<pc, events, last_cycle>>
             [] outcome = "raise" /\ lock[w] ->
                  /\ EmitError(w, "unsupported operand")
                  /\ lock' = [lock EXCEPT ![w] = FALSE]
                  /\ UNCHANGED <<scan_history, last_cycle>>
    /\ UNCHANGED <<form, settings, history_file, checker_thread, ctl, is_running,
                   stop_event, clock, outbox, stopped>>

\* The loop over the listing is exhausted.
RecordsDone(w) ==
    /\ pc[w] = "records"
    /\ loc[w].i > Len(loc[w].data)
    /\ pc' = [pc EXCEPT ![w] = "save"]
    /\ UNCHANGED <<form, lock, settings, scan_history, history_file, checker_thread, ctl, is_running,
                   stop_event, loc, clock, events, outbox, stopped,
                   last_cycle>>

\* AfterFailedSave falling back on the document of the file.
AfterFailedSave_Reload(hist, file) == file

\* Lines 139-140: a failure of the write is logged, and the history in memory
\* stays as line 135 left it.
AfterFailedSave(hist, file) == hist

\* Lines 134-142 followed by the return to run(), line 47: last_scan is set,
\* the history is written or the write fails (open raising: the file keeps
\* what it held), update_signal carries the result, and the sleep loop is
\* entered.  `writes` are the outcomes the write may have.
SaveAndEmit(w, writes) ==
    /\ pc[w] = "save"
    /\ \E written \in writes :
          LET stamped == [scan_history EXCEPT
                            !.last_scan = loc[w].current_time]
          IN  /\ scan_history' =
                    IF written THEN stamped
                    ELSE AfterFailedSave(stamped, history_file)
              /\ history_file' = IF written THEN stamped ELSE history_file
              /\ last_cycle' = [last_cycle EXCEPT
                                   !.ok = TRUE,
                                   !.saved = written,
                                   !.time = loc[w].current_time]
    /\ events' = Append(events,
                   [sig |-> "update", from |-> w,
                    current_time |-> loc[w].current_time,
                    last_check |-> loc[w].last_check,
                    api_last_checked |-> loc[w].api_last_checked,
                    appointments |-> loc[w].appointments])
    /\ loc' = [loc EXCEPT ![w] = [NoLocals EXCEPT
                                    !.left = settings.check_interval]]
    /\ pc' = [pc EXCEPT ![w] = "sleep"]
    /\ UNCHANGED <<form, lock, settings, checker_thread, ctl, is_running,
                   stop_event, clock, outbox, stopped>>

\* SleepBreaks without the test of the stop event: the interval is slept out.
SleepBreaks_Never(w) == FALSE

\* Lines 47-49: the head of the sleep loop.  The loop ends when the interval
\* is used up or, by the break, when the stop event is set.
SleepBreaks(w) == stop_event[w]

SleepTest(w) ==
    /\ pc[w] = "sleep"
    /\ IF loc[w].left = 0 \/ SleepBreaks(w)
       THEN pc' = [pc EXCEPT ![w] = "loop"]
       ELSE pc' = [pc EXCEPT ![w] = "msleep"]
    /\ UNCHANGED <<form, lock, settings, scan_history, history_file, checker_thread, ctl, is_running,
                   stop_event, loc, clock, events, outbox, stopped,
                   last_cycle>>

\* Msleep losing count of the seconds slept.
Msleep_NoCountdown(w) ==
    /\ pc[w] = "msleep"
    /\ pc' = [pc EXCEPT ![w] = "sleep"]
    /\ UNCHANGED <<form, lock, settings, scan_history, history_file, checker_thread, ctl,
                   is_running, stop_event, loc, clock, events, outbox,
                   stopped, last_cycle>>

\* Line 50: msleep(1000) returns.
Msleep(w) ==
    /\ pc[w] = "msleep"
    /\ loc' = [loc EXCEPT ![w].left = @ - 1]
    /\ pc' = [pc EXCEPT ![w] = "sleep"]
    /\ UNCHANGED <<form, lock, settings, scan_history, history_file, checker_thread, ctl, is_running,
                   stop_event, clock, events, outbox, stopped, last_cycle>>

\* ------------------------------------------- the controller: VisaTracker
\* The worker ids not yet used; a new worker takes the smallest.
FreshIds == { w \in Workers : pc[w] = "new" }

\* MayStart without the test of line 502.
MayStart_Always == TRUE

\* Line 502: no worker object, or one whose thread is not running.
MayStart == checker_thread = 0 \/ ~IsRunning(checker_thread)

\* Lines 503-506: a worker is constructed (lines 29-35), its signals are
\* connected and its thread is started.
StartWorker(w) ==
    /\ checker_thread' = w
    /\ pc' = [pc EXCEPT ![w] = "loop"]
    /\ is_running' = [is_running EXCEPT ![w] = TRUE]
    /\ stop_event' = [stop_event EXCEPT ![w] = FALSE]

\* start_tracking (lines 500-522), called from the event loop.
StartTracking ==
    /\ ctl = "idle"
    /\ IF MayStart
       THEN /\ FreshIds # {}
            /\ StartWorker(CHOOSE w \in FreshIds : \A v \in FreshIds : w <= v)
            /\ UNCHANGED <<form, lock, settings, scan_history, history_file, ctl, loc, clock, events,
                           outbox, stopped, last_cycle>>
       ELSE UNCHANGED vars

\* stop_tracking (lines 524-545) up to the first statement of stop(), line
\* 38: the stop event is set.  Without a running worker it does nothing.
StopTracking ==
    /\ ctl = "idle"
    /\ IF checker_thread # 0 /\ IsRunning(checker_thread)
       THEN /\ stop_event' = [stop_event EXCEPT ![checker_thread] = TRUE]
            /\ ctl' = "stop_flagged"
            /\ UNCHANGED <<form, lock, settings, scan_history, history_file, checker_thread, pc,
                           is_running, loc, clock, events, outbox, stopped,
                           last_cycle>>
       ELSE UNCHANGED vars

\* Line 39: is_running = False.
StopClearRunning ==
    /\ ctl = "stop_flagged"
    /\ is_running' = [is_running EXCEPT ![checker_thread] = FALSE]
    /\ ctl' = "stop_wait"
    /\ UNCHANGED <<form, lock, settings, scan_history, history_file, checker_thread, pc, stop_event,
                   loc, clock, events, outbox, stopped, last_cycle>>

\* WaitReturns without the wait: stop() returns at once.
WaitReturns_NoWait(w) == TRUE

\* Line 40: QThread.wait() returns once run() has returned.
WaitReturns(w) == pc[w] = "done"

\* Line 40 returning, then line 529: stop() returns to stop_tracking, which
\* drops the worker object and returns to the event loop.  The signals the
\* worker has emitted stay queued: each was posted to the controller's event
\* queue when it was emitted, and dropping the worker object withdraws none.
StopReturns ==
    /\ ctl = "stop_wait"
    /\ WaitReturns(checker_thread)
    /\ stopped' = stopped \cup {checker_thread}
    /\ checker_thread' = 0
    /\ ctl' = "idle"
    /\ UNCHANGED <<form, lock, settings, scan_history, history_file, pc, is_running, stop_event, loc,
                   clock, events, outbox, last_cycle>>

\* Lines 514-517 and 532-535: the widgets of the country pair and of the
\* interval are disabled by start_tracking, where it sets checker_thread, and
\* enabled again by stop_tracking, where it clears it.  No other widget, and
\* not the save button, is ever disabled.
FieldsEnabled == checker_thread = 0

\* The values a user may give the widgets: the source country, the interval
\* (the spin box holds 1 at least, line 331) and the kind of updates.
FormSources == { "TR", "FR" }
FormIntervals == 1..MaxInterval

\* The user edits one widget of the form, which the event loop lets them do
\* where the widget is enabled.
EditForm ==
    /\ ctl = "idle"
    /\ \/ /\ FieldsEnabled
          /\ \E src \in FormSources :
                form' = [form EXCEPT !.source_country = src]
       \/ /\ FieldsEnabled
          /\ \E n \in FormIntervals :
                form' = [form EXCEPT !.check_interval = n]
       \/ form' = [form EXCEPT !.send_all_updates = ~@]
    /\ form' # form
    /\ UNCHANGED <<settings, scan_history, history_file, checker_thread,
                   ctl, pc, is_running, stop_event, loc, lock, clock,
                   events, outbox, stopped, last_cycle>>

\* save_current_settings (lines 479-498), the slot of the save button: every
\* field of the settings is set from its widget.
SaveCurrentSettings ==
    /\ ctl = "idle"
    /\ settings' = [settings EXCEPT
                       !.source_country = form.source_country,
                       !.mission_country = form.mission_country,
                       !.check_interval = form.check_interval,
                       !.send_all_updates = form.send_all_updates]
    /\ UNCHANGED <<form, scan_history, history_file, checker_thread, ctl,
                   pc, is_running, stop_event, loc, lock, clock, events,
                   outbox, stopped, last_cycle>>

\* UpdateMessages ignoring send_all_updates.
UpdateMessages_AlwaysSend(result, sett) ==
    << [kind |-> "report", blocks |-> Len(result.appointments),
        footer |-> result.appointments = <<>>] >>

\* Lines 572-596: the messages handle_update sends for `result`.  A message
\* is its kind, the number of appointment blocks and whether it ends with
\* the "no appointments" footer.
UpdateMessages(result, sett) ==
    IF result.appointments # <<>>
    THEN << [kind |-> "report", blocks |-> Len(result.appointments),
             footer |-> FALSE] >>
    ELSE IF sett.send_all_updates
         THEN << [kind |-> "report", blocks |-> 0, footer |-> TRUE] >>
         ELSE << >>

\* handle_update (lines 547-600), the slot of update_signal, run by the
\* event loop for the oldest pending signal, up to the requests.post of
\* send_telegram_message (line 624) when there is a message to send, and to
\* its end when there is none.
HandleUpdate ==
    /\ ctl = "idle"
    /\ events # <<>>
    /\ Head(events).sig = "update"
    /\ outbox' = [sig |-> "update",
                  matched |-> Len(Head(events).appointments),
                  sent |-> UpdateMessages(Head(events), settings),
                  failed |-> FALSE]
    /\ ctl' = IF UpdateMessages(Head(events), settings) # <<>>
              THEN "sending" ELSE "idle"
    /\ events' = Tail(events)
    /\ UNCHANGED <<form, lock, settings, scan_history, history_file, checker_thread, pc,
                   is_running, stop_event, loc, clock, stopped, last_cycle>>

\* handle_error (lines 602-606), the slot of error_signal, up to the
\* requests.post of send_telegram_message: the error message is being sent.
HandleError ==
    /\ ctl = "idle"
    /\ events # <<>>
    /\ Head(events).sig = "error"
    /\ outbox' = [sig |-> "error", matched |-> 0,
                  sent |-> << [kind |-> "error", blocks |-> 0,
                               footer |-> FALSE] >>,
                  failed |-> FALSE]
    /\ ctl' = "sending"
    /\ events' = Tail(events)
    /\ UNCHANGED <<form, lock, settings, scan_history, history_file, checker_thread, pc,
                   is_running, stop_event, loc, clock, stopped, last_cycle>>

\* AfterSend posting the message again when the post has failed.
AfterSend_Retry(sent, delivered) ==
    IF delivered THEN sent ELSE sent \o sent

\* Lines 623-629: the sendMessage calls made once requests.post has returned
\* or raised; a failure is printed and the message is left at that.
AfterSend(sent, delivered) == sent

\* requests.post returns or raises (lines 624-629) and the handler runs to
\* its end.  In handle_error (lines 608-612), when a worker object exists
\* whose thread is not running, stop_tracking (which then does nothing) and
\* start_tracking are called.  `posts` are the outcomes the post may have.
SendReturns(posts) ==
    /\ ctl = "sending"
    /\ \E delivered \in posts :
          outbox' = [outbox EXCEPT !.sent = AfterSend(@, delivered),
                                   !.failed = ~delivered]
    /\ ctl' = "idle"
    /\ IF /\ outbox.sig = "error"
          /\ checker_thread # 0
          /\ ~IsRunning(checker_thread)
          /\ FreshIds # {}
       THEN StartWorker(CHOOSE w \in FreshIds : \A v \in FreshIds : w <= v)
       ELSE UNCHANGED <<checker_thread, pc, is_running, stop_event>>
    /\ UNCHANGED <<form, lock, settings, scan_history, history_file, loc, clock, events,
                   stopped, last_cycle>>

\* ---------------------------------------------------------- specifications
\* Spec: the controller and the workers in every interleaving, on the short
\* feed, with the selection TR -> DE.
Init ==
    InitWith([source_country |-> {"TR"}, mission_country |-> {"DE"},
              check_interval |-> {MaxInterval},
              send_all_updates |-> BOOLEAN])

Next ==
    \/ StartTracking
    \/ StopTracking
    \/ StopClearRunning
    \/ StopReturns
    \/ HandleUpdate
    \/ HandleError
    \/ SendReturns(MayFail)
    \/ \E w \in Workers :
          \/ LoopTest(w, FALSE)
          \/ FetchOk(w, ShortFeed, FALSE)
          \/ FetchFails(w)
          \/ ProcessRecord(w)
          \/ RecordsDone(w)
          \/ SaveAndEmit(w, Succeeds)
          \/ SleepTest(w)
          \/ Msleep(w)

Spec == Init /\ [][Next]_vars

\* SpecCycles: the cycles of one worker on the full feed.  The settings file
\* may hold any selection, the empty strings of the defaults included.  The
\* event loop delivers each signal, and its handler returns, before the
\* worker's next step; the worker reads neither `events` nor `outbox`, so
\* none of its behaviours is lost.
Delivered == events = <<>> /\ ctl = "idle"

InitCycles ==
    InitWith([source_country |-> {"TR", ""}, mission_country |-> {"DE", ""},
              check_interval |-> {1},
              send_all_updates |-> {TRUE}])

NextCycles ==
    \/ StartTracking
    \/ HandleUpdate
    \/ HandleError
    \/ SendReturns(Succeeds)
    \/ \E w \in Workers :
          \/ Delivered /\ LoopTest(w, FALSE)
          \/ Delivered /\ FetchOk(w, FullFeed, FALSE)
          \/ Delivered /\ FetchFails(w)
          \/ Delivered /\ ProcessRecord(w)
          \/ Delivered /\ RecordsDone(w)
          \/ Delivered /\ SaveAndEmit(w, Succeeds)
          \/ Delivered /\ SleepTest(w)
          \/ Delivered /\ Msleep(w)

SpecCycles == InitCycles /\ [][NextCycles]_vars

\* SpecRepeat: as SpecCycles with the selection TR -> DE and listings of
\* matching records, and last_cycle keeps each listing, so that a cycle knows
\* whether it was fetched twice in a row.
NextRepeat ==
    \/ StartTracking
    \/ HandleUpdate
    \/ HandleError
    \/ SendReturns(Succeeds)
    \/ \E w \in Workers :
          \/ Delivered /\ LoopTest(w, FALSE)
          \/ Delivered /\ FetchOk(w, MatchingFeed, TRUE)
          \/ Delivered /\ FetchFails(w)
          \/ Delivered /\ ProcessRecord(w)
          \/ Delivered /\ RecordsDone(w)
          \/ Delivered /\ SaveAndEmit(w, Succeeds)
          \/ Delivered /\ SleepTest(w)
          \/ Delivered /\ Msleep(w)

SpecRepeat == Init /\ [][NextRepeat]_vars

\* SpecFaults: as SpecCycles with the selection TR -> DE, on listings that
\* hold the per-record faults.
NextFaults ==
    \/ StartTracking
    \/ HandleUpdate
    \/ HandleError
    \/ SendReturns(Succeeds)
    \/ \E w \in Workers :
          \/ Delivered /\ LoopTest(w, FALSE)
          \/ Delivered /\ FetchOk(w, FaultFeed, FALSE)
          \/ Delivered /\ FetchNotList(w)
          \/ Delivered /\ FetchFails(w)
          \/ Delivered /\ ProcessRecord(w)
          \/ Delivered /\ RecordsDone(w)
          \/ Delivered /\ SaveAndEmit(w, MayFail)
          \/ Delivered /\ SleepTest(w)
          \/ Delivered /\ Msleep(w)

SpecFaults == Init /\ [][NextFaults]_vars

\* SpecLive: one worker that is started and never stopped, on the short
\* feed, with the clock wrapping.  The guard Delivered only bounds the queue
\* of signals: the worker of the code never waits for the controller, and
\* the fairness of the handlers stands for the event loop that drains the
\* queue.  The worker's thread is scheduled, and each of its steps ends: the
\* fetch by its timeout of 30 seconds, msleep after a second.
WorkerStep(w) ==
    \/ Delivered /\ LoopTest(w, TRUE)
    \/ Delivered /\ FetchOk(w, ShortFeed, FALSE)
    \/ Delivered /\ FetchFails(w)
    \/ Delivered /\ ProcessRecord(w)
    \/ Delivered /\ RecordsDone(w)
    \/ Delivered /\ SaveAndEmit(w, Succeeds)
    \/ Delivered /\ SleepTest(w)
    \/ Delivered /\ Msleep(w)

EventLoopStep ==
    \/ HandleUpdate
    \/ HandleError
    \/ SendReturns(Succeeds)

NextLive ==
    \/ StartTracking
    \/ EventLoopStep
    \/ \E w \in Workers : WorkerStep(w)

SpecLive ==
    /\ Init
    /\ [][NextLive]_vars
    /\ WF_vars(EventLoopStep)
    /\ \A w \in Workers : WF_vars(WorkerStep(w))

\* SpecSettings: the controller with the settings form, and the workers on
\* the short feed.  While the controller is in its event loop each signal is
\* delivered before the worker's next step; while it is inside stop() the
\* worker runs on, as it must for stop() to return.
Drained == events = <<>> \/ ctl \in {"stop_flagged", "stop_wait"}

NextSettings ==
    \/ StartTracking
    \/ StopTracking
    \/ StopClearRunning
    \/ StopReturns
    \/ EditForm
    \/ SaveCurrentSettings
    \/ HandleUpdate
    \/ HandleError
    \/ SendReturns(Succeeds)
    \/ \E w \in Workers :
          \/ Drained /\ LoopTest(w, FALSE)
          \/ Drained /\ FetchOk(w, ShortFeed, FALSE)
          \/ Drained /\ FetchFails(w)
          \/ Drained /\ ProcessRecord(w)
          \/ Drained /\ RecordsDone(w)
          \/ Drained /\ SaveAndEmit(w, Succeeds)
          \/ Drained /\ SleepTest(w)
          \/ Drained /\ Msleep(w)

SpecSettings == Init /\ [][NextSettings]_vars

\* ------------------------------------------------------------ properties
\* A step in which worker w emits a signal: `events` grows at its tail by a
\* signal from w (the handlers only remove its head).
Emits(w) ==
    /\ Len(events') = Len(events) + 1
    /\ events'[Len(events')].from = w

\* C1: stop() returns only when the worker's run() has exited, and a worker
\* on which stop() has returned emits no update_signal and no error_signal.
C1_StopBlocksUntilExit ==
    /\ [](\A w \in stopped : pc[w] = "done")
    /\ [][\A w \in stopped : ~Emits(w)]_vars

\* stop() is blocked in wait() while the worker, the stop event already set,
\* is about to emit the result of the cycle that was in flight.
C1_Witness ==
    /\ ctl = "stop_wait"
    /\ pc[checker_thread] = "save"
    /\ stop_event[checker_thread]

\* C2: once a worker's stop event is set, the worker enters no new cycle (it
\* never goes to the fetch) and begins no further 1-second sleep: at most the
\* msleep that was under way completes, and a cycle in flight is the last.
C2_NoNewCycleAfterStop ==
    [][\A w \in Workers :
          stop_event[w] =>
              /\ (pc'[w] = "fetch" => pc[w] = "fetch")
              /\ (pc'[w] = "msleep" => pc[w] = "msleep")]_vars

\* A stopped worker has left the sleep loop with part of the interval left.
C2_Witness ==
    \E w \in Workers :
        /\ stop_event[w]
        /\ pc[w] = "done"
        /\ loc[w].left >= 1

\* C3: at most one worker is running; a worker is constructed only when none
\* is running, and the controller's reference to a running worker is replaced
\* only by none (by stop_tracking).
C3_AtMostOneWorker ==
    /\ [](Cardinality({ w \in Workers : IsRunning(w) }) <= 1)
    /\ [][/\ \A w \in Workers :
                (pc[w] = "new" /\ pc'[w] # "new") =>
                    \A v \in Workers : ~IsRunning(v)
          /\ (checker_thread # 0 /\ IsRunning(checker_thread)) =>
                 checker_thread' \in {checker_thread, 0}]_vars

\* A second worker runs after the first was stopped.
C3_Witness ==
    /\ pc[1] = "done"
    /\ IsRunning(2)
    /\ checker_thread = 2

\* C4: handle_update sends exactly one message for a non-empty list, and for
\* an empty list one message with the footer when send_all_updates is true
\* and none when it is false.
C4_SendPolicy ==
    outbox.sig = "update" =>
        IF outbox.matched > 0
        THEN /\ Len(outbox.sent) = 1
             /\ outbox.sent[1].kind = "report"
             /\ ~outbox.sent[1].footer
        ELSE IF settings.send_all_updates
             THEN /\ Len(outbox.sent) = 1
                  /\ outbox.sent[1].kind = "report"
                  /\ outbox.sent[1].footer
             ELSE outbox.sent = <<>>

\* An empty result was handled with send_all_updates false: nothing was sent.
C4_Witness ==
    /\ outbox.sig = "update"
    /\ outbox.matched = 0
    /\ ~settings.send_all_updates
    /\ outbox.sent = <<>>

\* What the properties of the cycles say of a record and of a snapshot, read
\* off the data alone.
PeopleOf(r) == IF r.people_looking = Absent THEN 0 ELSE r.people_looking

\* The record lacks a required field or is no mapping.
Lacks(r) ==
    \/ r.kind # "dict"
    \/ r.source_country = ""
    \/ r.mission_country = ""
    \/ r.appointment_date = NoDate

\* The record is well formed and of the selected pair.
Selected(r) ==
    /\ ~Lacks(r)
    /\ r.source_country = settings.source_country
    /\ r.mission_country = settings.mission_country

\* The record reports on `key`.
ReportsOn(r, key) ==
    /\ ~Lacks(r)
    /\ r.source_country = key[1]
    /\ r.mission_country = key[2]
    /\ SubSeq(r.appointment_date, 1, 3) = key[3]

\* The key of a snapshot of the result: the selected pair and its day.
SnapshotKey(info) ==
    <<settings.source_country, settings.mission_country,
      <<info.date[3], info.date[2], info.date[1]>>>>

HasChange(info) == "people_looking_change" \in DOMAIN info

\* C5: when the cycle before succeeded and left people_looking = N for a key,
\* and the listing of this successful cycle reports M # N for that key, every
\* snapshot of this cycle for the key carries people_looking_change = M - N
\* and the history holds M for the key.
C5_ChangeIsDifference ==
    \A w \in Workers :
        (pc[w] = "save" /\ loc[w].after_ok) =>
            \A key \in DOMAIN loc[w].before :
                LET N == loc[w].before[key].people_looking
                    reported ==
                        { PeopleOf(loc[w].data[j]) :
                            j \in { i \in 1..Len(loc[w].data) :
                                      ReportsOn(loc[w].data[i], key) } }
                IN  \A M \in reported :
                        (reported = {M} /\ M # N /\ M >= 0 /\ N >= 0) =>
                            /\ \A j \in 1..Len(loc[w].appointments) :
                                  LET info == loc[w].appointments[j]
                                  IN  SnapshotKey(info) = key =>
                                          /\ HasChange(info)
                                          /\ info.people_looking_change = M - N
                            /\ scan_history.appointments[key].people_looking = M

\* C6: a successful cycle on the listing that the successful cycle before it
\* had fetched leaves every snapshot of its result without
\* people_looking_change.
C6_RepeatHasNoChange ==
    \A w \in Workers :
        (pc[w] = "save" /\ loc[w].repeat) =>
            \A j \in 1..Len(loc[w].appointments) :
                ~HasChange(loc[w].appointments[j])

\* C7: a snapshot of a cycle's result carries people_looking_change only when
\* its key was in the history when the cycle began.
C7_ChangeOnlyForKnownKey ==
    \A w \in Workers :
        \A j \in 1..Len(loc[w].appointments) :
            HasChange(loc[w].appointments[j]) =>
                SnapshotKey(loc[w].appointments[j]) \in DOMAIN loc[w].before

\* C8: a step of a cycle that appends a snapshot to the result or changes the
\* history's appointments is the step of a record whose source_country and
\* mission_country equal the selection of the settings, and it stores the
\* snapshot under the key of that pair and of the record's day, changing no
\* other key.
C8_FilterCorrect ==
    [][\A w \in Workers :
          (/\ pc[w] = "records"
           /\ \/ Len(loc'[w].appointments) > Len(loc[w].appointments)
              \/ scan_history'.appointments # scan_history.appointments) =>
              LET r == loc[w].data[loc[w].i]
                  key == <<settings.source_country, settings.mission_country,
                           SubSeq(r.appointment_date, 1, 3)>>
                  info == loc'[w].appointments[Len(loc'[w].appointments)]
              IN  /\ r.source_country = settings.source_country
                  /\ r.mission_country = settings.mission_country
                  /\ Len(loc'[w].appointments) = Len(loc[w].appointments) + 1
                  /\ DOMAIN scan_history'.appointments =
                         DOMAIN scan_history.appointments \cup {key}
                  /\ scan_history'.appointments[key] = info
                  /\ \A k \in DOMAIN scan_history.appointments \ {key} :
                        scan_history'.appointments[k] =
                            scan_history.appointments[k]]_vars

\* A listing of a matching record and one of another pair gave one snapshot.
C8_Witness ==
    \E w \in Workers :
        /\ pc[w] = "save"
        /\ Len(loc[w].data) = 2
        /\ \E j \in 1..2 : loc[w].data[j] \in OtherRecords
        /\ Len(loc[w].appointments) = 1
        /\ DOMAIN scan_history.appointments = {<<"TR", "DE", Day1>>}

\* C9: the step of a record that lacks a required field or is no mapping
\* changes neither the result nor the history and goes on to the next record;
\* and the result of a successful cycle is, in order, the snapshots of the
\* well-formed records of the selected pair, whatever stands between them.
C9_MalformedSkipped ==
    /\ [](\A w \in Workers :
            pc[w] = "save" =>
                LET good == SelectSeq(loc[w].data, LAMBDA r : Selected(r))
                IN  /\ Len(loc[w].appointments) = Len(good)
                    /\ \A j \in 1..Len(good) :
                          /\ SnapshotKey(loc[w].appointments[j]) =
                                 <<good[j].source_country,
                                   good[j].mission_country,
                                   SubSeq(good[j].appointment_date, 1, 3)>>
                          /\ loc[w].appointments[j].people_looking =
                                 PeopleOf(good[j]))
    /\ [][\A w \in Workers :
            (/\ pc[w] = "records"
             /\ loc[w].i <= Len(loc[w].data)
             /\ Lacks(loc[w].data[loc[w].i])
             /\ loc'[w] # loc[w]) =>
                /\ scan_history' = scan_history
                /\ loc'[w] = [loc[w] EXCEPT !.i = @ + 1]
                /\ pc'[w] = "records"
                /\ events' = events]_vars

\* A listing with a malformed record first and a valid one after it gave the
\* valid one's snapshot.
C9_Witness ==
    \E w \in Workers :
        /\ pc[w] = "save"
        /\ Len(loc[w].data) = 2
        /\ Lacks(loc[w].data[1])
        /\ Len(loc[w].appointments) = 1

\* C10: a cycle that fails emits error_signal and leaves the worker in the
\* sleep loop with the whole interval ahead; the sleep loop ends only when the
\* interval is used up or the stop event is set; a worker whose stop was not
\* requested goes from the loop test into the next cycle, and no worker
\* terminates unless its stop was requested.
C10_FailedCycleGoesOn ==
    [][\A w \in Workers :
          /\ (pc[w] \in {"fetch", "records"} /\
              pc'[w] \notin {"fetch", "records", "save"}) =>
                 /\ Emits(w)
                 /\ events'[Len(events')].sig = "error"
                 /\ pc'[w] = "sleep"
                 /\ loc'[w].left = settings.check_interval
          /\ (pc[w] = "sleep" /\ pc'[w] # "sleep") =>
                 IF loc[w].left = 0 \/ stop_event[w]
                 THEN pc'[w] = "loop" ELSE pc'[w] = "msleep"
          /\ (pc[w] = "msleep" /\ pc'[w] # "msleep") =>
                 /\ pc'[w] = "sleep"
                 /\ loc'[w].left = loc[w].left - 1
          /\ (pc[w] = "loop" /\ pc'[w] # "loop") =>
                 IF is_running[w] /\ ~stop_event[w]
                 THEN pc'[w] = "fetch" ELSE pc'[w] = "done"]_vars

\* The first worker's first cycle failed, no stop was requested, and after
\* the sleep the same worker is in its second cycle.
C10_Witness ==
    /\ pc[1] = "fetch"
    /\ pc[2] = "new"
    /\ clock = 2
    /\ ~last_cycle.ok
    /\ ~stop_event[1]

\* C11: a fault of one record never aborts the cycle: no error_signal carries
\* the exception of a record's step (the subtraction of line 124 on a
\* people_looking that is null), so every listing that was fetched ends with
\* a success result.
C11_RecordErrorIsolated ==
    \A j \in 1..Len(events) :
        events[j].sig = "error" => events[j].error # "unsupported operand"

\* C12: a fetch that fails, or that yields a body which is no list, ends the
\* cycle there: error_signal is emitted, the history is as it was, and the
\* worker goes to the sleep loop without a step of the record loop or of the
\* save.
C12_BadFetchIsError ==
    [][\A w \in Workers :
          (/\ pc[w] = "fetch"
           /\ pc'[w] # "fetch"
           /\ (pc'[w] # "records" \/ ~loc'[w].is_list)) =>
              /\ Emits(w)
              /\ events'[Len(events')].sig = "error"
              /\ scan_history' = scan_history
              /\ pc'[w] = "sleep"]_vars

\* C13: the save step emits the success result and no error, whether the
\* write of the file succeeds or fails, and leaves in memory this cycle's
\* upserts and its current_time as last_scan; a failed write leaves the file
\* behind the memory, and the cycle that follows reads its previous last_scan
\* and its snapshots from the memory.
C13_SaveFailureKeepsMemory ==
    /\ [][\A w \in Workers :
            (pc[w] = "save" /\ pc'[w] # "save") =>
                /\ Emits(w)
                /\ events'[Len(events')].sig = "update"
                /\ events'[Len(events')].appointments = loc[w].appointments
                /\ scan_history'.appointments = scan_history.appointments
                /\ scan_history'.last_scan = loc[w].current_time
                /\ pc'[w] = "sleep"
                /\ ~last_cycle'.saved => history_file' = history_file]_vars
    /\ [][\A w \in Workers :
            (pc[w] = "fetch" /\ pc'[w] = "records") =>
                /\ loc'[w].last_check = scan_history.last_scan
                /\ loc'[w].before = scan_history.appointments]_vars
    /\ [][\A w \in Workers :
            (/\ pc[w] = "records"
             /\ Len(loc'[w].appointments) > Len(loc[w].appointments)) =>
                LET info == loc'[w].appointments[Len(loc'[w].appointments)]
                    key == SnapshotKey(info)
                IN  HasChange(info) =>
                      /\ key \in DOMAIN scan_history.appointments
                      /\ info.people_looking_change =
                            info.people_looking -
                            scan_history.appointments[key].people_looking]_vars

\* After a cycle whose write failed, the next cycle has taken its previous
\* last_scan and a delta from what only the memory holds.
C13_Witness ==
    \E w \in Workers :
        /\ pc[w] = "save"
        /\ ~last_cycle.saved
        /\ loc[w].last_check = 1
        /\ history_file.last_scan = 0
        /\ DOMAIN history_file.appointments = {}
        /\ \E j \in 1..Len(loc[w].appointments) :
              HasChange(loc[w].appointments[j])

\* C14: when a send fails the handler returns to the event loop and nothing
\* else happens: every worker is where it was, still running if it was, the
\* history and its file are unchanged, no signal is queued, and the message
\* has been posted once.
C14_SendFailureIsLocal ==
    [][(ctl = "sending" /\ ctl' # "sending" /\ outbox'.failed) =>
          /\ ctl' = "idle"
          /\ pc' = pc
          /\ is_running' = is_running
          /\ stop_event' = stop_event
          /\ checker_thread' = checker_thread
          /\ scan_history' = scan_history
          /\ history_file' = history_file
          /\ events' = events
          /\ outbox'.sent = outbox.sent
          /\ Len(outbox'.sent) = 1]_vars

\* The report of the first cycle failed to be sent, and the worker is in its
\* second cycle.
C14_Witness ==
    /\ outbox.sig = "update"
    /\ outbox.failed
    /\ ctl = "idle"
    /\ clock = 2
    /\ pc[1] = "records"
    /\ pc[2] = "new"

\* C15: a worker that was started and is never stopped runs cycles for ever:
\* every cycle ends in the sleep loop (its result or its error emitted), every
\* sleep loop ends at the loop test, and every loop test is followed by the
\* fetch of a further cycle.
C15_RunsForever ==
    \A w \in Workers :
        /\ (pc[w] \in {"fetch", "records", "save"}) ~> (pc[w] = "sleep")
        /\ (pc[w] \in {"sleep", "msleep"}) ~> (pc[w] = "loop")
        /\ (pc[w] = "loop") ~> (pc[w] = "fetch")

\* A cycle has begun after the cycle of the last reading of the clock had
\* succeeded: more than MaxCycles cycles have run.
C15_Witness ==
    /\ pc[1] = "fetch"
    /\ clock = 1
    /\ scan_history.last_scan = MaxCycles

\* C16: a cycle that ends with error_signal leaves the history as it was when
\* the cycle began (its appointments and its last_scan), and whenever no
\* cycle is under way and the last write succeeded, the history in memory is
\* the document of the file.
C16_ErrorLeavesHistory ==
    [][/\ \A w \in Workers :
            (/\ Emits(w)
             /\ events'[Len(events')].sig = "error") =>
                IF pc[w] = "records"
                THEN /\ scan_history'.appointments = loc[w].before
                     /\ scan_history'.last_scan = loc[w].last_check
                ELSE scan_history' = scan_history
       /\ (/\ \A w \in Workers : pc'[w] \notin {"records", "save"}
           /\ last_cycle'.saved) =>
              scan_history' = history_file']_vars

\* C17: a worker emits a signal exactly in the step that ends a cycle, and
\* one signal only: update_signal, with the appointment list and no error,
\* when the cycle ends at the save, error_signal, with the error and no
\* appointment list, when it ends before; and a cycle ends nowhere but in the
\* sleep loop.
C17_OneOutcomePerCycle ==
    [][/\ Len(events') <= Len(events) + 1
       /\ \A w \in Workers :
            LET InCycle(p) == p \in {"fetch", "records", "save"}
                ends == InCycle(pc[w]) /\ ~InCycle(pc'[w])
            IN  /\ Emits(w) <=> ends
                /\ ends =>
                      /\ pc'[w] = "sleep"
                      /\ LET signal == events'[Len(events')]
                         IN  IF pc[w] = "save"
                             THEN /\ signal.sig = "update"
                                  /\ "appointments" \in DOMAIN signal
                                  /\ "error" \notin DOMAIN signal
                             ELSE /\ signal.sig = "error"
                                  /\ "error" \in DOMAIN signal
                                  /\ "appointments" \notin DOMAIN signal]_vars

\* Two cycles of the first worker have ended, the first with a result and
\* the second with an error; neither signal is handled yet.
C17_Witness ==
    /\ Len(events) = 2
    /\ events[1].sig = "update" /\ events[1].from = 1
    /\ events[2].sig = "error" /\ events[2].from = 1
    /\ pc[1] = "sleep"

\* C18: from the first upsert of a cycle until the history is persisted, the
\* worker holds its lock: at no point of a cycle that has upserted, and has
\* not yet saved, is the lock free.
C18_LockHeldUntilPersist ==
    \A w \in Workers :
        (pc[w] \in {"records", "save"} /\ Len(loc[w].appointments) > 0) =>
            lock[w]

\* C19: the controller thread is never inside a network call: no handler it
\* runs is in requests.post, where it can take no stop request.
C19_ControllerNeverInNetworkCall ==
    ctl # "sending"

\* C20: the result of a successful cycle carries as previous last_scan the
\* current_time of the last cycle that succeeded before it, whichever worker
\* ran it (the initial value when none did), and the cycle leaves its own
\* current_time as last_scan; a cycle that ends with an error leaves
\* last_scan as it is.
C20_PreviousScanIsLastSuccess ==
    [][\A w \in Workers :
          /\ (pc[w] = "save" /\ pc'[w] # "save") =>
                /\ events'[Len(events')].last_check = last_cycle.time
                /\ events'[Len(events')].current_time = loc[w].current_time
                /\ scan_history'.last_scan = loc[w].current_time
          /\ (pc[w] \in {"fetch", "records"} /\ pc'[w] = "sleep") =>
                scan_history'.last_scan = scan_history.last_scan]_vars

\* The second worker, started after the first was stopped, is about to emit
\* a result whose previous last_scan is the time of the first worker's cycle.
C20_Witness ==
    /\ pc[1] = "done"
    /\ pc[2] = "save"
    /\ loc[2].last_check = 1
    /\ loc[2].current_time = 2

\* C21: no step removes a key from the history's appointments; while a cycle
\* runs, the snapshot of every key that no matching record of its listing
\* reports on is the one the cycle began with; and when the cycle comes to
\* its save, every key that the listing does report on holds the snapshot of
\* the last record of that key (its day and its people_looking).
C21_OnlyReportedKeysChange ==
    /\ [][DOMAIN scan_history.appointments \subseteq
              DOMAIN scan_history'.appointments]_vars
    /\ [](\A w \in Workers :
            pc[w] \in {"records", "save"} =>
                \A key \in DOMAIN loc[w].before
                             \cup DOMAIN scan_history.appointments :
                    LET on == { j \in 1..Len(loc[w].data) :
                                  /\ Selected(loc[w].data[j])
                                  /\ ReportsOn(loc[w].data[j], key) }
                    IN  /\ key \in DOMAIN scan_history.appointments
                        /\ on = {} =>
                              /\ key \in DOMAIN loc[w].before
                              /\ scan_history.appointments[key] =
                                     loc[w].before[key]
                        /\ (on # {} /\ pc[w] = "save") =>
                              LET last == CHOOSE j \in on :
                                              \A i \in on : i <= j
                                  held == scan_history.appointments[key]
                              IN  /\ held.people_looking =
                                         PeopleOf(loc[w].data[last])
                                  /\ SnapshotKey(held) = key)

\* A cycle on a listing of two records of one day is at its save, and the
\* history holds the second record's count for that day and, as it was, the
\* snapshot of a day the listing does not report on.
C21_Witness ==
    \E w \in Workers :
        /\ pc[w] = "save"
        /\ Len(loc[w].data) = 2
        /\ ReportsOn(loc[w].data[1], <<"TR", "DE", Day1>>)
        /\ ReportsOn(loc[w].data[2], <<"TR", "DE", Day1>>)
        /\ loc[w].data[1].people_looking = 1
        /\ loc[w].data[2].people_looking = 2
        /\ DOMAIN loc[w].before = {<<"TR", "DE", Day2>>}
        /\ DOMAIN scan_history.appointments =
               {<<"TR", "DE", Day1>>, <<"TR", "DE", Day2>>}
        /\ scan_history.appointments[<<"TR", "DE", Day1>>].people_looking = 2

\* C22: while the worker the controller holds is running, no step changes
\* the settings.
C22_SettingsFrozenWhileRunning ==
    [][(checker_thread # 0 /\ IsRunning(checker_thread)) =>
          settings' = settings]_vars

\* C23: no handler begins a send for a signal of a worker on which stop()
\* has returned.
C23_NoSendForStoppedWorker ==
    [][(ctl = "idle" /\ ctl' = "sending") =>
          Head(events).from \notin stopped]_vars

====
